---- MODULE Spec2Model ----
(***************************************************************************)
(* Model of the LTC2942 gas-gauge driver (src/LTC2942.c).                  *)
(*                                                                         *)
(* The chip is a bank of 16 one-byte registers.  The driver reaches it     *)
(* only through HAL_I2C_readWrite, one bus transaction per call, each of   *)
(* which may succeed or fail, and through usleep.  Every statement of a    *)
(* driver function that touches the bus, sleeps, stores the output or      *)
(* returns is one step; pc holds the source line of the next statement.    *)
(* bus is the log of bus transactions and sleeps of the call in progress,   *)
(* entry the chip's registers as they were when the call was made, calls   *)
(* the number of calls made so far.  arg holds the register and value      *)
(* arguments of a call of ltc_writeRegister or ltc_readRegister, prev the   *)
(* record of the register call that returned last.                         *)
(***************************************************************************)
EXTENDS Integers, Sequences, FiniteSets, TLC

VARIABLES regs, entry, calls, op, arg, prev, pc, res, reg_save, adc_code, res1, res2,
          out, ret, bus

vars == <<regs, entry, calls, op, arg, prev, pc, res, reg_save, adc_code, res1, res2,
          out, ret, bus>>

----------------------------------------------------------------------------
(* Bounds *)

\* number of representative data bytes held by the measurement registers
\* and read from uninitialised stack slots
NumSamples == 3

\* number of driver calls the caller makes on one chip image
MaxCalls == 2

----------------------------------------------------------------------------
(* Registers and command codes, src/LTC2942.c:22-69 *)

DEVICE_ID == 0

STATUS_REG == 0
CONTROL_REG == 1
ACCUM_CHARGE_MSB_REG == 2
ACCUM_CHARGE_LSB_REG == 3
CHARGE_THRESH_HIGH_MSB_REG == 4
CHARGE_THRESH_HIGH_LSB_REG == 5
CHARGE_THRESH_LOW_MSB_REG == 6
CHARGE_THRESH_LOW_LSB_REG == 7
VOLTAGE_MSB_REG == 8
VOLTAGE_LSB_REG == 9
VOLTAGE_THRESH_HIGH_REG == 10
VOLTAGE_THRESH_LOW_REG == 11
TEMPERATURE_MSB_REG == 12
TEMPERATURE_LSB_REG == 13
TEMPERATURE_THRESH_HIGH_REG == 14
TEMPERATURE_THRESH_LOW_REG == 15

AUTOMATIC_MODE == 192
PRESCALAR_M_2 == 8
PRESCALAR_M_4 == 16
PRESCALAR_M_128 == 56
SHUTDOWN_MODE == 1

\* the literal ltc_init writes to the control register
INIT_CONTROL == 200
\* the mask ltc_readDeviceID applies to the status byte
ID_MASK == 192

----------------------------------------------------------------------------
(* C integer arithmetic *)

Byte == 0..255
RegAddr == 0..15

RECURSIVE BitAnd(_, _)
\* a & b on non-negative integers
BitAnd(a, b) ==
    IF a = 0 \/ b = 0 THEN 0
    ELSE (a % 2) * (b % 2) + 2 * BitAnd(a \div 2, b \div 2)

RECURSIVE BitOr(_, _)
\* a | b on non-negative integers
BitOr(a, b) ==
    IF a = 0 THEN b
    ELSE IF b = 0 THEN a
    ELSE (IF a % 2 = 1 \/ b % 2 = 1 THEN 1 ELSE 0) + 2 * BitOr(a \div 2, b \div 2)

\* a << n
ShiftLeft(a, n) == a * (2 ^ n)

\* conversion to uint8_t, uint16_t, int16_t
ToUint8(x) == x % 256
ToUint16(x) == x % 65536
ToInt16(x) == IF x % 65536 >= 32768 THEN (x % 65536) - 65536 ELSE x % 65536

\* bool as an integer operand
BoolToInt(b) == IF b THEN 1 ELSE 0

----------------------------------------------------------------------------
(* Values that are not bytes *)

\* a stack byte never written
Uninit == -1
\* a byte or word that is not in scope
Absent == -2
\* no function is running
None == "none"
\* results handed to the caller: a bool, nothing (void function), or
\* NoResult while the function has not returned
NoResult == "noresult"
Void == "void"
RetBool(b) == IF b THEN "true" ELSE "false"

SampleTable == <<18, 52, 128, 255, 0, 127, 165, 90>>
SampleByte(i) == SampleTable[((i - 1) % Len(SampleTable)) + 1]
SampleBytes == { SampleByte(i) : i \in 1..NumSamples }

\* the value read from a stack slot: indeterminate when never written
StackRead(v) == IF v = Uninit THEN SampleBytes ELSE {v}

----------------------------------------------------------------------------
(* The chip and the transport *)

\* status and control swept over every byte (control is the complement of
\* status so the two are never confused), data registers at mid-scale
SweepImage(b) ==
    [r \in RegAddr |->
        CASE r = STATUS_REG -> b
          [] r = CONTROL_REG -> 255 - b
          [] r = ACCUM_CHARGE_MSB_REG -> 127
          [] r = ACCUM_CHARGE_LSB_REG -> 255
          [] r = VOLTAGE_MSB_REG -> 170
          [] r = VOLTAGE_LSB_REG -> 85
          [] r = TEMPERATURE_MSB_REG -> 102
          [] r = TEMPERATURE_LSB_REG -> 153
          [] r \in {CHARGE_THRESH_HIGH_MSB_REG, CHARGE_THRESH_HIGH_LSB_REG,
                    VOLTAGE_THRESH_HIGH_REG, TEMPERATURE_THRESH_HIGH_REG} -> 255
          [] OTHER -> 0]

\* the three MSB/LSB pairs filled from the sample bytes, each pair with a
\* different arrangement of m and l; control at its power-on value 0x3C
DataImage(m, l) ==
    [r \in RegAddr |->
        CASE r = STATUS_REG -> 0
          [] r = CONTROL_REG -> 60
          [] r = ACCUM_CHARGE_MSB_REG -> m
          [] r = ACCUM_CHARGE_LSB_REG -> l
          [] r = VOLTAGE_MSB_REG -> l
          [] r = VOLTAGE_LSB_REG -> 255 - m
          [] r = TEMPERATURE_MSB_REG -> 255 - m
          [] r = TEMPERATURE_LSB_REG -> 255 - l
          [] r \in {CHARGE_THRESH_HIGH_MSB_REG, CHARGE_THRESH_HIGH_LSB_REG,
                    VOLTAGE_THRESH_HIGH_REG, TEMPERATURE_THRESH_HIGH_REG} -> 255
          [] OTHER -> 0]

ChipImages ==
    { SweepImage(b) : b \in Byte }
        \cup { DataImage(m, l) : m \in SampleBytes, l \in SampleBytes }

\* bus log entries
RdEvent(reg, ok) == [kind |-> "rd", reg |-> reg, val |-> Absent, ok |-> ok]
WrEvent(reg, val, ok) == [kind |-> "wr", reg |-> reg, val |-> val, ok |-> ok]
SleepEvent == [kind |-> "usleep", reg |-> Absent, val |-> Absent, ok |-> TRUE]

\* HAL_I2C_readWrite(id, &reg, 1, res, 1): on success the register's byte is
\* stored in the buffer; on failure the buffer is left as it was or holds
\* the idle bus level 0xFF
ReadInto(reg, ok, old) == IF ok THEN {regs[reg]} ELSE {old, 255}

\* HAL_I2C_readWrite(id, {reg, val}, 2, NULL, 0): on success the chip stores
\* val in the register; on failure the chip is unchanged
WriteTo(reg, val, ok) == IF ok THEN [regs EXCEPT ![reg] = val] ELSE regs

\* usleep(1)
usleep == bus' = Append(bus, SleepEvent)

\* variant of ltc_readRegister that sends the buffer as a two-byte write
ltc_readRegister_writes(reg, ok, old, new) ==
    /\ new \in ReadInto(reg, ok, old)
    /\ bus' = Append(bus, WrEvent(reg, 0, ok))
    /\ regs' = WriteTo(reg, 0, ok)

\* ltc_readRegister: one write-then-read transaction, its result returned
ltc_readRegister(reg, ok, old, new) ==
    /\ new \in ReadInto(reg, ok, old)
    /\ bus' = Append(bus, RdEvent(reg, ok))
    /\ regs' = regs

\* ltc_writeRegister: one two-byte write transaction, its result returned
ltc_writeRegister(reg, val, ok) ==
    /\ regs' = WriteTo(reg, val, ok)
    /\ bus' = Append(bus, WrEvent(reg, val, ok))

----------------------------------------------------------------------------
(* Driver state *)

Idle == 0

\* arguments of a function that takes the device handle only
NoArg == [reg |-> Absent, val |-> Absent]

\* no register call has returned yet
NoPrev ==
    [op |-> None, arg |-> NoArg, ret |-> NoResult, bus |-> <<>>,
     entry |-> [r \in RegAddr |-> Absent]]

FreshStack == [i \in {0, 1} |-> Uninit]
NoStack == [i \in {0, 1} |-> Absent]

Init ==
    /\ regs \in ChipImages
    /\ entry = regs
    /\ calls = 0
    /\ op = None
    /\ arg = NoArg
    /\ prev = NoPrev
    /\ pc = Idle
    /\ res = Absent
    /\ reg_save = Absent
    /\ adc_code = NoStack
    /\ res1 = FALSE
    /\ res2 = FALSE
    /\ out = Absent
    /\ ret = NoResult
    /\ bus = <<>>

Functions ==
    {"ltc_readDeviceID", "ltc_init", "ltc_reset_charge",
     "ltc_code_to_voltage", "ltc_temp", "ltc_capacity"}

\* first statement of each function
Entry(f) ==
    CASE f = "ltc_readDeviceID" -> 142
      [] f = "ltc_init" -> 159
      [] f = "ltc_reset_charge" -> 169
      [] f = "ltc_code_to_voltage" -> 200
      [] f = "ltc_temp" -> 234
      [] f = "ltc_capacity" -> 265
      [] f = "ltc_readRegister" -> 106
      [] f = "ltc_writeRegister" -> 127

\* closing brace of each function
Exit(f) ==
    CASE f = "ltc_readDeviceID" -> 145
      [] f = "ltc_init" -> 161
      [] f = "ltc_reset_charge" -> 174
      [] f = "ltc_code_to_voltage" -> 208
      [] f = "ltc_temp" -> 242
      [] f = "ltc_capacity" -> 273
      [] f = "ltc_readRegister" -> 109
      [] f = "ltc_writeRegister" -> 130

Returned == op # None /\ pc = Exit(op)

\* the caller enters a driver function; locals take their declared
\* initial values
Call ==
    /\ pc = Idle
    /\ calls < MaxCalls
    /\ calls' = calls + 1
    /\ \E f \in Functions :
        /\ op' = f
        /\ pc' = Entry(f)
        /\ res' = IF f = "ltc_readDeviceID" THEN 0 ELSE Absent
        /\ reg_save' = IF f = "ltc_reset_charge" THEN 0 ELSE Absent
        /\ adc_code' = IF f \in {"ltc_code_to_voltage", "ltc_temp", "ltc_capacity"}
                       THEN FreshStack ELSE NoStack
    /\ res1' = FALSE
    /\ res2' = FALSE
    /\ out' = Absent
    /\ ret' = NoResult
    /\ bus' = <<>>
    /\ entry' = regs
    /\ UNCHANGED <<regs, arg, prev>>

\* the caller takes the result; the frame is gone
Return ==
    /\ Returned
    /\ op' = None
    /\ pc' = Idle
    /\ res' = Absent
    /\ reg_save' = Absent
    /\ adc_code' = NoStack
    /\ res1' = FALSE
    /\ res2' = FALSE
    /\ out' = Absent
    /\ ret' = NoResult
    /\ bus' = <<>>
    /\ entry' = regs
    /\ UNCHANGED <<regs, calls, arg, prev>>

----------------------------------------------------------------------------
(* Driver functions, one definition per statement *)

\* the variables no driver statement changes
frame == <<op, entry, calls, arg, prev>>

\* ltc_readRegister(id, STATUS_REG, &res); the result is discarded
ltc_readDeviceID_L142 ==
    /\ pc = 142
    /\ \E ok \in BOOLEAN, b \in Byte :
          /\ ltc_readRegister(STATUS_REG, ok, res, b)
          /\ res' = b
    /\ pc' = 144
    /\ UNCHANGED <<frame, reg_save, adc_code, res1, res2, out, ret>>

\* variant of line 144 that compares the whole status byte
ltc_readDeviceID_L144_whole_byte ==
    /\ pc = 144
    /\ ret' = RetBool(res = DEVICE_ID)
    /\ pc' = 145
    /\ UNCHANGED <<frame, regs, res, reg_save, adc_code, res1, res2, out, bus>>

\* return (res & 0xC0) == DEVICE_ID;
ltc_readDeviceID_L144 ==
    /\ pc = 144
    /\ ret' = RetBool(BitAnd(res, ID_MASK) = DEVICE_ID)
    /\ pc' = 145
    /\ UNCHANGED <<frame, regs, res, reg_save, adc_code, res1, res2, out, bus>>

ltc_readDeviceID ==
    /\ op = "ltc_readDeviceID"
    /\ \/ ltc_readDeviceID_L142
       \/ ltc_readDeviceID_L144

\* ltc_writeRegister(id, CONTROL_REG, 0xC8); the result is discarded
ltc_init_L159 ==
    /\ pc = 159
    /\ \E ok \in BOOLEAN : ltc_writeRegister(CONTROL_REG, INIT_CONTROL, ok)
    /\ pc' = 160
    /\ UNCHANGED <<frame, res, reg_save, adc_code, res1, res2, out, ret>>

\* usleep(1); and the function ends without a value
ltc_init_L160 ==
    /\ pc = 160
    /\ usleep
    /\ ret' = Void
    /\ pc' = 161
    /\ UNCHANGED <<frame, regs, res, reg_save, adc_code, res1, res2, out>>

ltc_init ==
    /\ op = "ltc_init"
    /\ \/ ltc_init_L159
       \/ ltc_init_L160

\* variant of line 169 that saves the status register
ltc_reset_charge_L169_reads_status ==
    /\ pc = 169
    /\ \E ok \in BOOLEAN, b \in Byte :
          /\ ltc_readRegister(STATUS_REG, ok, reg_save, b)
          /\ reg_save' = b
    /\ pc' = 170
    /\ UNCHANGED <<frame, res, adc_code, res1, res2, out, ret>>

\* ltc_readRegister(id, CONTROL_REG, &reg_save);
ltc_reset_charge_L169 ==
    /\ pc = 169
    /\ \E ok \in BOOLEAN, b \in Byte :
          /\ ltc_readRegister(CONTROL_REG, ok, reg_save, b)
          /\ reg_save' = b
    /\ pc' = 170
    /\ UNCHANGED <<frame, res, adc_code, res1, res2, out, ret>>

\* variant of line 170 that gives up when the shutdown write fails
ltc_reset_charge_L170_aborts ==
    /\ pc = 170
    /\ \E ok \in BOOLEAN :
          /\ ltc_writeRegister(CONTROL_REG, ToUint8(BitOr(reg_save, SHUTDOWN_MODE)), ok)
          /\ pc' = IF ok THEN 171 ELSE 174
          /\ ret' = IF ok THEN ret ELSE Void
    /\ UNCHANGED <<frame, res, reg_save, adc_code, res1, res2, out>>

\* variant of line 170 that writes the saved value without the shutdown bit
ltc_reset_charge_L170_no_shutdown ==
    /\ pc = 170
    /\ \E ok \in BOOLEAN : ltc_writeRegister(CONTROL_REG, reg_save, ok)
    /\ pc' = 171
    /\ UNCHANGED <<frame, res, reg_save, adc_code, res1, res2, out, ret>>

\* ltc_writeRegister(id, CONTROL_REG, (reg_save | SHUTDOWN_MODE));
ltc_reset_charge_L170 ==
    /\ pc = 170
    /\ \E ok \in BOOLEAN :
          ltc_writeRegister(CONTROL_REG, ToUint8(BitOr(reg_save, SHUTDOWN_MODE)), ok)
    /\ pc' = 171
    /\ UNCHANGED <<frame, res, reg_save, adc_code, res1, res2, out, ret>>

\* ltc_writeRegister(id, ACCUM_CHARGE_MSB_REG, 0x00);
ltc_reset_charge_L171 ==
    /\ pc = 171
    /\ \E ok \in BOOLEAN : ltc_writeRegister(ACCUM_CHARGE_MSB_REG, 0, ok)
    /\ pc' = 172
    /\ UNCHANGED <<frame, res, reg_save, adc_code, res1, res2, out, ret>>

\* variant of line 172 that addresses the register after the charge pair
ltc_reset_charge_L172_wrong_reg ==
    /\ pc = 172
    /\ \E ok \in BOOLEAN : ltc_writeRegister(CHARGE_THRESH_HIGH_MSB_REG, 0, ok)
    /\ pc' = 173
    /\ UNCHANGED <<frame, res, reg_save, adc_code, res1, res2, out, ret>>

\* ltc_writeRegister(id, ACCUM_CHARGE_LSB_REG, 0x00);
ltc_reset_charge_L172 ==
    /\ pc = 172
    /\ \E ok \in BOOLEAN : ltc_writeRegister(ACCUM_CHARGE_LSB_REG, 0, ok)
    /\ pc' = 173
    /\ UNCHANGED <<frame, res, reg_save, adc_code, res1, res2, out, ret>>

\* variant of line 173 that restores into the status register
ltc_reset_charge_L173_wrong_reg ==
    /\ pc = 173
    /\ \E ok \in BOOLEAN : ltc_writeRegister(STATUS_REG, reg_save, ok)
    /\ ret' = Void
    /\ pc' = 174
    /\ UNCHANGED <<frame, res, reg_save, adc_code, res1, res2, out>>

\* variant of line 173 that writes the shutdown value back
ltc_reset_charge_L173_stays_shut ==
    /\ pc = 173
    /\ \E ok \in BOOLEAN :
          ltc_writeRegister(CONTROL_REG, ToUint8(BitOr(reg_save, SHUTDOWN_MODE)), ok)
    /\ ret' = Void
    /\ pc' = 174
    /\ UNCHANGED <<frame, res, reg_save, adc_code, res1, res2, out>>

\* ltc_writeRegister(id, CONTROL_REG, reg_save); and the function ends
\* without a value
ltc_reset_charge_L173 ==
    /\ pc = 173
    /\ \E ok \in BOOLEAN : ltc_writeRegister(CONTROL_REG, reg_save, ok)
    /\ ret' = Void
    /\ pc' = 174
    /\ UNCHANGED <<frame, res, reg_save, adc_code, res1, res2, out>>

ltc_reset_charge ==
    /\ op = "ltc_reset_charge"
    /\ \/ ltc_reset_charge_L169
       \/ ltc_reset_charge_L170
       \/ ltc_reset_charge_L171
       \/ ltc_reset_charge_L172
       \/ ltc_reset_charge_L173

\* res1 = ltc_readRegister(id, VOLTAGE_MSB_REG, &adc_code[1]);
ltc_code_to_voltage_L200 ==
    /\ pc = 200
    /\ \E ok \in BOOLEAN, b \in Byte \cup {Uninit} :
          /\ ltc_readRegister(VOLTAGE_MSB_REG, ok, adc_code[1], b)
          /\ adc_code' = [adc_code EXCEPT ![1] = b]
          /\ res1' = ok
    /\ pc' = 201
    /\ UNCHANGED <<frame, res, reg_save, res2, out, ret>>

\* usleep(1);
ltc_code_to_voltage_L201 ==
    /\ pc = 201
    /\ usleep
    /\ pc' = 202
    /\ UNCHANGED <<frame, regs, res, reg_save, adc_code, res1, res2, out, ret>>

\* res2 = ltc_readRegister(id, VOLTAGE_LSB_REG, &adc_code[0]);
ltc_code_to_voltage_L202 ==
    /\ pc = 202
    /\ \E ok \in BOOLEAN, b \in Byte \cup {Uninit} :
          /\ ltc_readRegister(VOLTAGE_LSB_REG, ok, adc_code[0], b)
          /\ adc_code' = [adc_code EXCEPT ![0] = b]
          /\ res2' = ok
    /\ pc' = 203
    /\ UNCHANGED <<frame, res, reg_save, res1, out, ret>>

\* usleep(1);
ltc_code_to_voltage_L203 ==
    /\ pc = 203
    /\ usleep
    /\ pc' = 205
    /\ UNCHANGED <<frame, regs, res, reg_save, adc_code, res1, res2, out, ret>>

\* variant of line 205 that assembles the bytes little-endian
ltc_code_to_voltage_L205_swapped ==
    /\ pc = 205
    /\ \E hi \in StackRead(adc_code[1]), lo \in StackRead(adc_code[0]) :
          out' = ToUint16(BitOr(ShiftLeft(lo, 8), hi))
    /\ pc' = 206
    /\ UNCHANGED <<frame, regs, res, reg_save, adc_code, res1, res2, ret, bus>>

\* *voltage = ((adc_code[1] << 8) | adc_code[0]);  (uint16_t)
ltc_code_to_voltage_L205 ==
    /\ pc = 205
    /\ \E hi \in StackRead(adc_code[1]), lo \in StackRead(adc_code[0]) :
          out' = ToUint16(BitOr(ShiftLeft(hi, 8), lo))
    /\ pc' = 206
    /\ UNCHANGED <<frame, regs, res, reg_save, adc_code, res1, res2, ret, bus>>

\* bool res3 = res1 && res2; return res3;
ltc_code_to_voltage_L206 ==
    /\ pc = 206
    /\ ret' = RetBool(res1 /\ res2)
    /\ pc' = 208
    /\ UNCHANGED <<frame, regs, res, reg_save, adc_code, res1, res2, out, bus>>

ltc_code_to_voltage ==
    /\ op = "ltc_code_to_voltage"
    /\ \/ ltc_code_to_voltage_L200
       \/ ltc_code_to_voltage_L201
       \/ ltc_code_to_voltage_L202
       \/ ltc_code_to_voltage_L203
       \/ ltc_code_to_voltage_L205
       \/ ltc_code_to_voltage_L206

\* res1 = ltc_readRegister(id, TEMPERATURE_MSB_REG, &adc_code[1]);
ltc_temp_L234 ==
    /\ pc = 234
    /\ \E ok \in BOOLEAN, b \in Byte \cup {Uninit} :
          /\ ltc_readRegister(TEMPERATURE_MSB_REG, ok, adc_code[1], b)
          /\ adc_code' = [adc_code EXCEPT ![1] = b]
          /\ res1' = ok
    /\ pc' = 235
    /\ UNCHANGED <<frame, res, reg_save, res2, out, ret>>

\* variant of line 235 that returns failure at once when the MSB read failed
ltc_temp_L235_aborts ==
    /\ pc = 235
    /\ usleep
    /\ pc' = IF res1 THEN 236 ELSE 242
    /\ ret' = IF res1 THEN ret ELSE RetBool(FALSE)
    /\ UNCHANGED <<frame, regs, res, reg_save, adc_code, res1, res2, out>>

\* usleep(1);
ltc_temp_L235 ==
    /\ pc = 235
    /\ usleep
    /\ pc' = 236
    /\ UNCHANGED <<frame, regs, res, reg_save, adc_code, res1, res2, out, ret>>

\* res2 = ltc_readRegister(id, TEMPERATURE_LSB_REG, &adc_code[0]);
ltc_temp_L236 ==
    /\ pc = 236
    /\ \E ok \in BOOLEAN, b \in Byte \cup {Uninit} :
          /\ ltc_readRegister(TEMPERATURE_LSB_REG, ok, adc_code[0], b)
          /\ adc_code' = [adc_code EXCEPT ![0] = b]
          /\ res2' = ok
    /\ pc' = 237
    /\ UNCHANGED <<frame, res, reg_save, res1, out, ret>>

\* usleep(1);
ltc_temp_L237 ==
    /\ pc = 237
    /\ usleep
    /\ pc' = 239
    /\ UNCHANGED <<frame, regs, res, reg_save, adc_code, res1, res2, out, ret>>

\* *temperature = (uint16_t)((adc_code[1] << 8) | adc_code[0]);  (int16_t)
ltc_temp_L239 ==
    /\ pc = 239
    /\ \E hi \in StackRead(adc_code[1]), lo \in StackRead(adc_code[0]) :
          out' = ToInt16(ToUint16(BitOr(ShiftLeft(hi, 8), lo)))
    /\ pc' = 241
    /\ UNCHANGED <<frame, regs, res, reg_save, adc_code, res1, res2, ret, bus>>

\* variant of line 241 that returns the LSB read's result alone
ltc_temp_L241_lsb_only ==
    /\ pc = 241
    /\ ret' = RetBool(res2)
    /\ pc' = 242
    /\ UNCHANGED <<frame, regs, res, reg_save, adc_code, res1, res2, out, bus>>

\* return (res1 & res2);
ltc_temp_L241 ==
    /\ pc = 241
    /\ ret' = RetBool(BitAnd(BoolToInt(res1), BoolToInt(res2)) # 0)
    /\ pc' = 242
    /\ UNCHANGED <<frame, regs, res, reg_save, adc_code, res1, res2, out, bus>>

ltc_temp ==
    /\ op = "ltc_temp"
    /\ \/ ltc_temp_L234
       \/ ltc_temp_L235
       \/ ltc_temp_L236
       \/ ltc_temp_L237
       \/ ltc_temp_L239
       \/ ltc_temp_L241

\* res1 = ltc_readRegister(id, ACCUM_CHARGE_MSB_REG, &adc_code[1]);
ltc_capacity_L265 ==
    /\ pc = 265
    /\ \E ok \in BOOLEAN, b \in Byte \cup {Uninit} :
          /\ ltc_readRegister(ACCUM_CHARGE_MSB_REG, ok, adc_code[1], b)
          /\ adc_code' = [adc_code EXCEPT ![1] = b]
          /\ res1' = ok
    /\ pc' = 266
    /\ UNCHANGED <<frame, res, reg_save, res2, out, ret>>

\* variant of line 266 that does not sleep
ltc_capacity_L266_no_sleep ==
    /\ pc = 266
    /\ pc' = 267
    /\ UNCHANGED <<frame, regs, res, reg_save, adc_code, res1, res2, out, ret, bus>>

\* usleep(1);
ltc_capacity_L266 ==
    /\ pc = 266
    /\ usleep
    /\ pc' = 267
    /\ UNCHANGED <<frame, regs, res, reg_save, adc_code, res1, res2, out, ret>>

\* res2 = ltc_readRegister(id, ACCUM_CHARGE_LSB_REG, &adc_code[0]);
ltc_capacity_L267 ==
    /\ pc = 267
    /\ \E ok \in BOOLEAN, b \in Byte \cup {Uninit} :
          /\ ltc_readRegister(ACCUM_CHARGE_LSB_REG, ok, adc_code[0], b)
          /\ adc_code' = [adc_code EXCEPT ![0] = b]
          /\ res2' = ok
    /\ pc' = 268
    /\ UNCHANGED <<frame, res, reg_save, res1, out, ret>>

\* usleep(1);
ltc_capacity_L268 ==
    /\ pc = 268
    /\ usleep
    /\ pc' = 270
    /\ UNCHANGED <<frame, regs, res, reg_save, adc_code, res1, res2, out, ret>>

\* *cap = ((adc_code[1] << 8) | adc_code[0]);  (uint16_t)
ltc_capacity_L270 ==
    /\ pc = 270
    /\ \E hi \in StackRead(adc_code[1]), lo \in StackRead(adc_code[0]) :
          out' = ToUint16(BitOr(ShiftLeft(hi, 8), lo))
    /\ pc' = 272
    /\ UNCHANGED <<frame, regs, res, reg_save, adc_code, res1, res2, ret, bus>>

\* return (res1 & res2);
ltc_capacity_L272 ==
    /\ pc = 272
    /\ ret' = RetBool(BitAnd(BoolToInt(res1), BoolToInt(res2)) # 0)
    /\ pc' = 273
    /\ UNCHANGED <<frame, regs, res, reg_save, adc_code, res1, res2, out, bus>>

ltc_capacity ==
    /\ op = "ltc_capacity"
    /\ \/ ltc_capacity_L265
       \/ ltc_capacity_L266
       \/ ltc_capacity_L267
       \/ ltc_capacity_L268
       \/ ltc_capacity_L270
       \/ ltc_capacity_L272

Next ==
    \/ Call
    \/ ltc_readDeviceID
    \/ ltc_init
    \/ ltc_reset_charge
    \/ ltc_code_to_voltage
    \/ ltc_temp
    \/ ltc_capacity
    \/ Return

Spec == Init /\ [][Next]_vars

----------------------------------------------------------------------------
(* The transport primitives called directly: a write of one register       *)
(* followed by a read of that register or of its neighbour                 *)

\* a chip image per sample byte
InitRW ==
    /\ regs \in { DataImage(m, m) : m \in SampleBytes }
    /\ entry = regs
    /\ calls = 0
    /\ op = None
    /\ arg = NoArg
    /\ prev = NoPrev
    /\ pc = Idle
    /\ res = Absent
    /\ reg_save = Absent
    /\ adc_code = NoStack
    /\ res1 = FALSE
    /\ res2 = FALSE
    /\ out = Absent
    /\ ret = NoResult
    /\ bus = <<>>

\* the caller calls ltc_writeRegister(id, r, v) first and then
\* ltc_readRegister(id, r', &out); out is the caller's buffer, not yet written
CallRegister ==
    /\ pc = Idle
    /\ \/ /\ calls = 0
          /\ op' = "ltc_writeRegister"
          /\ \E r \in RegAddr, v \in Byte : arg' = [reg |-> r, val |-> v]
       \/ /\ calls = 1
          /\ prev.op = "ltc_writeRegister"
          /\ op' = "ltc_readRegister"
          /\ \E r \in {prev.arg.reg, (prev.arg.reg + 1) % 16} :
                arg' = [reg |-> r, val |-> Absent]
    /\ pc' = Entry(op')
    /\ calls' = calls + 1
    /\ res' = Absent
    /\ reg_save' = Absent
    /\ adc_code' = NoStack
    /\ res1' = FALSE
    /\ res2' = FALSE
    /\ out' = Absent
    /\ ret' = NoResult
    /\ bus' = <<>>
    /\ entry' = regs
    /\ UNCHANGED <<regs, prev>>

\* the caller takes the result and keeps a record of the call
ReturnRegister ==
    /\ Returned
    /\ prev' = [op |-> op, arg |-> arg, ret |-> ret, bus |-> bus, entry |-> entry]
    /\ op' = None
    /\ arg' = NoArg
    /\ pc' = Idle
    /\ res' = Absent
    /\ reg_save' = Absent
    /\ adc_code' = NoStack
    /\ res1' = FALSE
    /\ res2' = FALSE
    /\ out' = Absent
    /\ ret' = NoResult
    /\ bus' = <<>>
    /\ entry' = regs
    /\ UNCHANGED <<regs, calls>>

\* bool res1 = HAL_I2C_readWrite(id, &reg, 1, res, 1);
ltc_readRegister_L106 ==
    /\ pc = 106
    /\ \E ok \in BOOLEAN, b \in Byte \cup {Absent} :
          /\ ltc_readRegister(arg.reg, ok, out, b)
          /\ out' = b
          /\ res1' = ok
    /\ pc' = 108
    /\ UNCHANGED <<frame, res, reg_save, adc_code, res2, ret>>

\* return res1;
ltc_readRegister_L108 ==
    /\ pc = 108
    /\ ret' = RetBool(res1)
    /\ pc' = 109
    /\ UNCHANGED <<frame, regs, res, reg_save, adc_code, res1, res2, out, bus>>

ltc_readRegister_fn ==
    /\ op = "ltc_readRegister"
    /\ \/ ltc_readRegister_L106
       \/ ltc_readRegister_L108

\* variant of lines 125-127 that fills tx_buf as { res, reg }
ltc_writeRegister_L127_swapped ==
    /\ pc = 127
    /\ \E ok \in BOOLEAN :
          /\ ltc_writeRegister(arg.val % 16, arg.reg, ok)
          /\ res1' = ok
    /\ pc' = 129
    /\ UNCHANGED <<frame, res, reg_save, adc_code, res2, out, ret>>

\* uint8_t tx_buf[2] = { reg, res };
\* bool res1 = HAL_I2C_readWrite(id, tx_buf, 2, NULL, 0);
ltc_writeRegister_L127 ==
    /\ pc = 127
    /\ \E ok \in BOOLEAN :
          /\ ltc_writeRegister(arg.reg, arg.val, ok)
          /\ res1' = ok
    /\ pc' = 129
    /\ UNCHANGED <<frame, res, reg_save, adc_code, res2, out, ret>>

\* return res1;
ltc_writeRegister_L129 ==
    /\ pc = 129
    /\ ret' = RetBool(res1)
    /\ pc' = 130
    /\ UNCHANGED <<frame, regs, res, reg_save, adc_code, res1, res2, out, bus>>

ltc_writeRegister_fn ==
    /\ op = "ltc_writeRegister"
    /\ \/ ltc_writeRegister_L127
       \/ ltc_writeRegister_L129

NextRW ==
    \/ CallRegister
    \/ ltc_writeRegister_fn
    \/ ltc_readRegister_fn
    \/ ReturnRegister

SpecRW == InitRW /\ [][NextRW]_vars

----------------------------------------------------------------------------
(* Vocabulary of the properties *)

Measurements == {"ltc_code_to_voltage", "ltc_temp", "ltc_capacity"}

MsbReg(f) ==
    CASE f = "ltc_code_to_voltage" -> VOLTAGE_MSB_REG
      [] f = "ltc_temp" -> TEMPERATURE_MSB_REG
      [] f = "ltc_capacity" -> ACCUM_CHARGE_MSB_REG

LsbReg(f) ==
    CASE f = "ltc_code_to_voltage" -> VOLTAGE_LSB_REG
      [] f = "ltc_temp" -> TEMPERATURE_LSB_REG
      [] f = "ltc_capacity" -> ACCUM_CHARGE_LSB_REG

\* positions of the bus transactions (not the sleeps) in the log
Accesses == { i \in 1..Len(bus) : bus[i].kind \in {"rd", "wr"} }

AllOk == \A i \in Accesses : bus[i].ok
SomeFailed == \E i \in Accesses : ~bus[i].ok

\* a read of register r was issued and succeeded / failed
ReadOk(r) == \E i \in Accesses : bus[i].kind = "rd" /\ bus[i].reg = r /\ bus[i].ok
ReadFailed(r) == \E i \in Accesses : bus[i].kind = "rd" /\ bus[i].reg = r /\ ~bus[i].ok

\* a usleep lies strictly between log positions i and j
SleepBetween(i, j) == \E k \in (i + 1)..(j - 1) : bus[k].kind = "usleep"

\* a usleep lies after log position i
SleepAfter(i) == \E k \in (i + 1)..Len(bus) : bus[k].kind = "usleep"

----------------------------------------------------------------------------
(* Properties *)

\* C1: ltc_readDeviceID returns false whenever its read of the status
\* register fails, whatever the status register holds.
C1_FailedReadNotIdentified ==
    (op = "ltc_readDeviceID" /\ Returned /\ ReadFailed(STATUS_REG))
        => ret = "false"

\* C2: in ltc_reset_charge the writes to the charge MSB and LSB registers
\* (lines 171 and 172) are made only while the chip's control register has
\* the shutdown bit set.
C2_AccumulatorWrittenOnlyInShutdown ==
    (op = "ltc_reset_charge" /\ pc \in {171, 172})
        => BitAnd(regs[CONTROL_REG], SHUTDOWN_MODE) = SHUTDOWN_MODE

\* C3: when every transaction of ltc_reset_charge succeeds, on return the
\* charge MSB and LSB registers hold 0 and the control register holds the
\* value it held when the call was made.
C3_ResetClearsChargeRestoresControl ==
    (op = "ltc_reset_charge" /\ Returned /\ AllOk)
        => /\ regs[ACCUM_CHARGE_MSB_REG] = 0
           /\ regs[ACCUM_CHARGE_LSB_REG] = 0
           /\ regs[CONTROL_REG] = entry[CONTROL_REG]

\* a reset that succeeded throughout, from a running chip with a non-zero
\* accumulator
C3_Witness ==
    /\ op = "ltc_reset_charge" /\ Returned /\ AllOk
    /\ Len(bus) = 5
    /\ entry[CONTROL_REG] % 2 = 0
    /\ entry[ACCUM_CHARGE_MSB_REG] # 0
    /\ entry[ACCUM_CHARGE_LSB_REG] # 0

C5_ResetAndInitReportFailure ==
    (op \in {"ltc_reset_charge", "ltc_init"} /\ Returned /\ SomeFailed)
        => ret = "false"

\* C6: ltc_init issues a single write, to the control register, whose value
\* has the mode bits at automatic (0xC0), the prescaler bits at M = 4 (0x10)
\* and the shutdown bit clear.
C6_InitWritesAutomaticM4 ==
    (op = "ltc_init" /\ Returned)
        => /\ Cardinality(Accesses) = 1
           /\ \A i \in Accesses :
                /\ bus[i].kind = "wr"
                /\ bus[i].reg = CONTROL_REG
                /\ BitAnd(bus[i].val, AUTOMATIC_MODE) = AUTOMATIC_MODE
                /\ BitAnd(bus[i].val, PRESCALAR_M_128) = PRESCALAR_M_4
                /\ BitAnd(bus[i].val, SHUTDOWN_MODE) = 0

\* C7: when the status read succeeds, ltc_readDeviceID returns true exactly
\* when the top two bits of the status register equal the identity pattern;
\* the lower six bits have no influence.
C7_IdentityIsTopTwoBits ==
    (op = "ltc_readDeviceID" /\ Returned /\ ReadOk(STATUS_REG))
        => ret = RetBool(entry[STATUS_REG] \div 64 = DEVICE_ID \div 64)

\* identified although all six lower status bits are set
C7_Witness ==
    /\ op = "ltc_readDeviceID" /\ Returned /\ ReadOk(STATUS_REG)
    /\ entry[STATUS_REG] = 63
    /\ ret = "true"

\* C8: in ltc_reset_charge a usleep lies between every two successive
\* register accesses.
C8_ResetSleepsBetweenAccesses ==
    (op = "ltc_reset_charge" /\ Returned)
        => \A i, j \in Accesses : i < j => SleepBetween(i, j)

\* C9: each measurement function sleeps after its MSB read and before its
\* LSB read, and again after the LSB read before it returns, whether or not
\* the reads succeeded.
C9_MeasurementSleeps ==
    (op \in Measurements /\ Returned)
        => \E i, j \in Accesses :
              /\ bus[i].kind = "rd" /\ bus[i].reg = MsbReg(op)
              /\ bus[j].kind = "rd" /\ bus[j].reg = LsbReg(op)
              /\ i < j
              /\ SleepBetween(i, j)
              /\ SleepAfter(j)

\* a measurement that has returned after both of its reads failed
C9_Witness ==
    /\ op = "ltc_capacity" /\ Returned
    /\ ReadFailed(MsbReg(op)) /\ ReadFailed(LsbReg(op))
    /\ Len(bus) = 4

C11_WriteThenReadYieldsValue ==
    (/\ op = "ltc_readRegister" /\ Returned
     /\ prev.op = "ltc_writeRegister"
     /\ prev.arg.reg = arg.reg
     /\ \A i \in 1..Len(prev.bus) : prev.bus[i].ok
     /\ AllOk)
        => /\ prev.ret = "true"
           /\ ret = "true"
           /\ out = prev.arg.val
           /\ regs[arg.reg] = prev.arg.val
           /\ \A q \in RegAddr \ {arg.reg} : regs[q] = prev.entry[q]

\* 0xA5 written to the last register and read back from it
C11_Witness ==
    /\ op = "ltc_readRegister" /\ Returned
    /\ prev.op = "ltc_writeRegister"
    /\ arg.reg = TEMPERATURE_THRESH_LOW_REG
    /\ prev.arg = [reg |-> TEMPERATURE_THRESH_LOW_REG, val |-> 165]
    /\ Len(prev.bus) = 1 /\ prev.bus[1].ok
    /\ Len(bus) = 1 /\ AllOk
    /\ prev.entry[TEMPERATURE_THRESH_LOW_REG] # 165
    /\ out = 165

\* the bus transactions of the log, in order, without the sleeps
AccessLog == SelectSeq(bus, LAMBDA e : e.kind \in {"rd", "wr"})

\* kind and register of every transaction of the log, in order
AccessShape == [i \in 1..Len(AccessLog) |-> <<AccessLog[i].kind, AccessLog[i].reg>>]

ShutdownSet(c) == BitAnd(c, SHUTDOWN_MODE) = SHUTDOWN_MODE

\* C12: ltc_reset_charge always issues exactly five transactions: read
\* CONTROL, write CONTROL, write charge MSB, write charge LSB, write CONTROL,
\* whatever succeeds or fails.
C12_ResetAlwaysFiveTransactions ==
    (op = "ltc_reset_charge" /\ Returned)
        => AccessShape = << <<"rd", CONTROL_REG>>,
                            <<"wr", CONTROL_REG>>,
                            <<"wr", ACCUM_CHARGE_MSB_REG>>,
                            <<"wr", ACCUM_CHARGE_LSB_REG>>,
                            <<"wr", CONTROL_REG>> >>

\* a reset that ran to its end although its read and its first write failed
C12_Witness ==
    /\ op = "ltc_reset_charge" /\ Returned
    /\ Len(AccessLog) = 5
    /\ ~AccessLog[1].ok /\ ~AccessLog[2].ok
    /\ AccessLog[5].ok

\* C13 (as stated): after a reset in which every transaction succeeds the
\* shutdown bit of the control register is clear, for every initial control
\* value.
C13_ShutdownAlwaysClearAfterReset ==
    (op = "ltc_reset_charge" /\ Returned /\ AllOk)
        => ~ShutdownSet(regs[CONTROL_REG])

\* C13 (amended): after a reset in which every transaction succeeds the
\* shutdown bit of the control register is clear whenever it was clear
\* before the call.
C13_ShutdownClearIfClearBefore ==
    (op = "ltc_reset_charge" /\ Returned /\ AllOk /\ ~ShutdownSet(entry[CONTROL_REG]))
        => ~ShutdownSet(regs[CONTROL_REG])

\* a fully successful reset of a running chip
C13_Witness ==
    /\ op = "ltc_reset_charge" /\ Returned /\ AllOk
    /\ Len(AccessLog) = 5
    /\ ~ShutdownSet(entry[CONTROL_REG])
    /\ entry[CONTROL_REG] = 60
    /\ regs[CONTROL_REG] = 60

\* C14: when the shutdown write of line 170 took effect and the restore of
\* line 173 failed, a chip that was running before the call is left shut
\* down, and the function returns nothing that tells the caller.
C14_FailedRestoreLeavesShutdown ==
    (/\ op = "ltc_reset_charge" /\ Returned
     /\ ~ShutdownSet(entry[CONTROL_REG])
     /\ Len(AccessLog) >= 5
     /\ AccessLog[2].ok /\ ~AccessLog[5].ok)
        => ShutdownSet(regs[CONTROL_REG]) /\ ret = Void

\* the outcome itself: shutdown clear before, set after, a write failed
C14_Witness ==
    /\ op = "ltc_reset_charge" /\ Returned
    /\ ~ShutdownSet(entry[CONTROL_REG])
    /\ ShutdownSet(regs[CONTROL_REG])
    /\ Len(AccessLog) = 5
    /\ AccessLog[1].ok /\ AccessLog[2].ok /\ ~AccessLog[5].ok
    /\ ret = Void

\* C15: ltc_temp with both reads succeeding delivers 256 * m + l, a value in
\* 0..65535, also when the MSB byte m is 0x80 or more.
C15_TemperatureIsUnsigned ==
    (op = "ltc_temp" /\ Returned /\ ReadOk(MsbReg(op)) /\ ReadOk(LsbReg(op)))
        => /\ out = 256 * entry[MsbReg(op)] + entry[LsbReg(op)]
           /\ out \in 0..65535

\* C16: each measurement function always issues exactly two reads, the MSB
\* register first and the LSB register second, and always stores the output,
\* also when the MSB read fails.
C16_TwoReadsAndOutputAlways ==
    (op \in Measurements /\ Returned)
        => /\ AccessShape = << <<"rd", MsbReg(op)>>, <<"rd", LsbReg(op)>> >>
           /\ out # Absent

\* a measurement that read the LSB and stored its output after the MSB
\* read failed
C16_Witness ==
    /\ op = "ltc_temp" /\ Returned
    /\ Len(AccessLog) = 2
    /\ ~AccessLog[1].ok /\ AccessLog[2].ok
    /\ out # Absent

\* C17: when the read of line 169 fails and leaves reg_save at its initial 0
\* and the four writes succeed, the control register ends as 0x00 whatever
\* it held before.
C17_FailedSaveLosesControl ==
    (/\ op = "ltc_reset_charge" /\ Returned
     /\ Len(AccessLog) >= 5
     /\ ~AccessLog[1].ok /\ reg_save = 0
     /\ \A i \in 2..Len(AccessLog) : AccessLog[i].ok)
        => regs[CONTROL_REG] = 0

\* automatic mode and prescaler of a configured chip lost
C17_Witness ==
    /\ op = "ltc_reset_charge" /\ Returned
    /\ Len(AccessLog) = 5
    /\ ~AccessLog[1].ok /\ reg_save = 0
    /\ \A i \in 2..5 : AccessLog[i].ok
    /\ entry[CONTROL_REG] = 60
    /\ regs[CONTROL_REG] = 0

ReadOnlyFunctions == {"ltc_readDeviceID"} \cup Measurements

\* a step taken inside a read-only function keeps the chip and logs no write
ReadOnlyStep ==
    op \in ReadOnlyFunctions
        => (/\ regs' = regs
            /\ \A i \in 1..Len(bus') : bus'[i].kind \in {"rd", "usleep"})

\* C18: ltc_readDeviceID and the three measurement functions issue only
\* read transactions, and no step of them changes any of the 16 chip
\* registers, under any failure pattern.
C18_ReadsLeaveChipUnchanged ==
    [][ReadOnlyStep]_vars

\* a second read-only call in a row has returned with the chip as it was
C18_Witness ==
    /\ op = "ltc_code_to_voltage" /\ Returned
    /\ calls = 2
    /\ ReadFailed(MsbReg(op)) /\ ReadOk(LsbReg(op))
    /\ regs = entry

\* C19: ltc_reset_charge and ltc_init write only to the control register
\* and, for the reset, the charge MSB and LSB registers; every other
\* register keeps its value; every value the reset writes to the control
\* register differs from reg_save at most in bit 0.
C19_WritesConfinedToControlAndCharge ==
    (op \in {"ltc_reset_charge", "ltc_init"})
        => /\ \A r \in RegAddr \ {CONTROL_REG, ACCUM_CHARGE_MSB_REG, ACCUM_CHARGE_LSB_REG} :
                 regs[r] = entry[r]
           /\ op = "ltc_init"
                 => /\ regs[ACCUM_CHARGE_MSB_REG] = entry[ACCUM_CHARGE_MSB_REG]
                    /\ regs[ACCUM_CHARGE_LSB_REG] = entry[ACCUM_CHARGE_LSB_REG]
           /\ \A i \in 1..Len(AccessLog) :
                 AccessLog[i].kind = "wr"
                    => /\ AccessLog[i].reg \in
                            IF op = "ltc_init" THEN {CONTROL_REG}
                            ELSE {CONTROL_REG, ACCUM_CHARGE_MSB_REG, ACCUM_CHARGE_LSB_REG}
                       /\ (op = "ltc_reset_charge" /\ AccessLog[i].reg = CONTROL_REG)
                             => AccessLog[i].val \div 2 = reg_save \div 2

\* a reset with a failed restore: control and charge changed, the rest not
C19_Witness ==
    /\ op = "ltc_reset_charge" /\ Returned
    /\ Len(AccessLog) = 5
    /\ AccessLog[2].ok /\ AccessLog[3].ok /\ ~AccessLog[5].ok
    /\ regs[CONTROL_REG] # entry[CONTROL_REG]
    /\ regs[ACCUM_CHARGE_MSB_REG] # entry[ACCUM_CHARGE_MSB_REG]

====
